---- MODULE Spec2Model ----
(***************************************************************************)
(* Model of bot.py: the payload normaliser (parse_number_from_payload),    *)
(* the signal classifier (make_signal), the dedup window (SEEN_KEYS,       *)
(* dedup_key) and the event pipeline (_handler, poll_history_backfill,     *)
(* handle_result), the two delivery sinks (push_to_web, push_telegram),    *)
(* handlers running as threads, and the connection loop of main().         *)
(*                                                                         *)
(* Python values are tagged records [k |-> kind, v |-> content]:           *)
(*   none  - None / JSON null          int  - int                          *)
(*   bool  - bool (a subclass of int)  str  - tuple of 1-character strings *)
(*   list  - tuple of values           map  - function from key to value   *)
(***************************************************************************)
EXTENDS Integers, Sequences, FiniteSets, TLC

VARIABLES
    pc,         \* position of main(): "backfill" before line 285 returns, then "run";
                \* the connection specification adds "connect", "heartbeat", "hb_sleep", "exit"
    CONFIG,     \* the loaded configuration (BIG_THRESHOLD, DEDUP_WINDOW, sink settings)
    SEEN_KEYS,  \* the module-level dedup list
    now,        \* time.time(), whole seconds
    raw,        \* the message given to the handler / normaliser last
    parsed,     \* what parse_number_from_payload returned for it
    report,     \* the payload handle_result built for it, None when it returned early
    reports,    \* every payload built so far, in order (the SIGNAL log lines)
    calls,      \* messages handed to the pipeline so far
    sinks,      \* what push_to_web and push_telegram did for each payload, in order
    th,         \* handler threads: position and locals (thread specification only)
    num,        \* classifier input  (classifier specification only)
    sig         \* classifier output (classifier specification only)

vars == <<pc, CONFIG, SEEN_KEYS, now, raw, parsed, report, reports, calls, sinks, th, num, sig>>

----------------------------------------------------------------------------
(* Bounds *)

MaxWindow    == 2     \* largest DEDUP_WINDOW tried
MaxCalls     == 5     \* messages handled before the feed is cut off
MaxNow       == 60    \* last clock value, seconds
MaxThreshold == 11    \* largest BIG_THRESHOLD tried by the classifier specification
MaxStrLen    == 3     \* longest generated text
MaxNumber    == 100   \* largest integer candidate tried by the normaliser specification
MaxSinkCalls == 3     \* messages handled by the sink specification
NumThreads   == 2     \* handler threads of the thread specification
MaxThreadCalls == 3   \* messages handled by the thread specification

----------------------------------------------------------------------------
(* Python values *)

None    == [k |-> "none", v |-> 0]
I(n)    == [k |-> "int",  v |-> n]
B(b)    == [k |-> "bool", v |-> b]
S(s)    == [k |-> "str",  v |-> s]
L(s)    == [k |-> "list", v |-> s]
M(f)    == [k |-> "map",  v |-> f]

\* isinstance(c, int): bool is a subclass of int
IsInt(c) == c.k \in {"int", "bool"}

\* the integer value of an int or bool (True == 1, False == 0)
Num(c) == IF c.k = "bool" THEN (IF c.v THEN 1 ELSE 0) ELSE c.v

\* Python truthiness, as used by `or`
Truthy(x) ==
    CASE x.k = "none" -> FALSE
      [] x.k = "int"  -> x.v # 0
      [] x.k = "bool" -> x.v
      [] x.k = "str"  -> Len(x.v) > 0
      [] x.k = "list" -> Len(x.v) > 0
      [] x.k = "map"  -> DOMAIN x.v # {}

PyOr(a, b) == IF Truthy(a) THEN a ELSE b

----------------------------------------------------------------------------
(* Text *)

Digits == <<"0", "1", "2", "3", "4", "5", "6", "7", "8", "9">>

IsDigit(c) == \E i \in 1..10 : Digits[i] = c

DigitVal(c) == (CHOOSE i \in 1..10 : Digits[i] = c) - 1

IsSpace(c) == c \in {" ", "\t", "\n", "\r"}

\* str(n) for a non-negative int
RECURSIVE NatToStr(_)
NatToStr(n) ==
    IF n < 10 THEN <<Digits[n + 1]>>
    ELSE Append(NatToStr(n \div 10), Digits[(n % 10) + 1])

IntToStr(n) == IF n < 0 THEN <<"-">> \o NatToStr(0 - n) ELSE NatToStr(n)

\* str(x) / f"{x}" for the scalar kinds
PyStr(x) ==
    CASE x.k = "str"  -> x.v
      [] x.k = "int"  -> IntToStr(x.v)
      [] x.k = "bool" -> IF x.v THEN <<"T", "r", "u", "e">> ELSE <<"F", "a", "l", "s", "e">>
      [] x.k = "none" -> <<"N", "o", "n", "e">>

\* s.lstrip() / s.rstrip() / s.strip()
RECURSIVE lstrip(_)
lstrip(s) == IF s # <<>> /\ IsSpace(Head(s)) THEN lstrip(Tail(s)) ELSE s

RECURSIVE rstrip(_)
rstrip(s) ==
    IF s # <<>> /\ IsSpace(s[Len(s)]) THEN rstrip(SubSeq(s, 1, Len(s) - 1)) ELSE s

strip(s) == rstrip(lstrip(s))

\* int(text) for a run of decimal digits
RECURSIVE StrToNat(_)
StrToNat(s) ==
    IF s = <<>> THEN 0
    ELSE 10 * StrToNat(SubSeq(s, 1, Len(s) - 1)) + DigitVal(s[Len(s)])

\* variant: only the last digit is matched
re_search_last_digit(t) ==
    LET ends == {p \in 1..Len(t) : IsDigit(t[p]) /\ \A q \in (p + 1)..Len(t) : IsSpace(t[q])}
    IN  IF ends = {} THEN <<>>
        ELSE LET p == CHOOSE q \in ends : \A r \in ends : r <= q IN SubSeq(t, p, p)

\* re.search(r"(\d{1,2})\s*$", t): the leftmost start p and the longest run of
\* one or two digits from p that is followed only by whitespace up to the end;
\* the value is group 1, or <<>> when there is no match.  With no whitespace
\* behind the digits this is also re.search(r"\d{1,2}$", t).
re_search_digits(t) ==
    LET Matches(p, l) ==
            /\ p + l - 1 <= Len(t)
            /\ \A q \in p..(p + l - 1) : IsDigit(t[q])
            /\ \A q \in (p + l)..Len(t) : IsSpace(t[q])
        starts == {p \in 1..Len(t) : Matches(p, 1) \/ Matches(p, 2)}
        first  == CHOOSE p \in starts : \A q \in starts : p <= q
    IN  IF starts = {} THEN <<>>
        ELSE IF Matches(first, 2) THEN SubSeq(t, first, first + 1)
        ELSE SubSeq(t, first, first)

----------------------------------------------------------------------------
(* Payload normaliser *)

\* safe_get(d, k): one step of the key walk
safe_get1(cur, key) ==
    IF cur.k = "map" /\ key \in DOMAIN cur.v THEN [found |-> TRUE, val |-> cur.v[key]]
    ELSE [found |-> FALSE, val |-> None]

\* safe_get(d, *keys, default=None)
RECURSIVE safe_get(_, _)
safe_get(d, keys) ==
    IF keys = <<>> THEN d
    ELSE LET step == safe_get1(d, Head(keys))
         IN  IF step.found THEN safe_get(step.val, Tail(keys)) ELSE None

\* the candidate list of lines 71-78
candidates(data) ==
    << safe_get(data, <<"number">>),
       safe_get(data, <<"result">>),
       safe_get(data, <<"openCode">>),
       safe_get(data, <<"lucky">>),
       safe_get(data, <<"lottery", "number">>),
       safe_get(data, <<"data", "number">>) >>

\* lines 82-83 / 89-90: str(issue or expect or period or "") or None
resolve_issue_keep_empty(data) ==
    LET picked == PyOr(PyOr(PyOr(safe_get(data, <<"issue">>),
                                 safe_get(data, <<"expect">>)),
                            safe_get(data, <<"period">>)),
                       S(<<>>))
    IN  S(PyStr(picked))

resolve_issue(data) ==
    LET picked == PyOr(PyOr(PyOr(safe_get(data, <<"issue">>),
                                 safe_get(data, <<"expect">>)),
                            safe_get(data, <<"period">>)),
                       S(<<>>))
        issue  == S(PyStr(picked))
    IN  PyOr(issue, None)

Event(issue, number, rawv) == [k |-> "event", v |-> [issue |-> issue, number |-> number, raw |-> rawv]]

\* variant: the upper bound is one too high
in_range_to_100(n) == 0 <= n /\ n <= 100

\* the bound test of lines 81, 88 and 109
in_range(n) == 0 <= n /\ n <= 99

\* lines 80-90 for one candidate c: the event it yields, None when it fails its test
try_candidate(data, c) ==
    IF IsInt(c)
    THEN IF in_range(Num(c)) THEN Event(resolve_issue(data), c, data) ELSE None
    ELSE IF c.k = "str"
    THEN LET m == re_search_digits(strip(c.v))
         IN  IF m # <<>> /\ in_range(StrToNat(m))
             THEN Event(resolve_issue(data), I(StrToNat(m)), data)
             ELSE None
    ELSE None

\* variant: the loop gives up at the first candidate that is present and fails its test
RECURSIVE scan_until_invalid(_, _, _)
scan_until_invalid(data, cs, i) ==
    IF i > Len(cs) THEN None
    ELSE IF cs[i] = None THEN scan_until_invalid(data, cs, i + 1)
    ELSE try_candidate(data, cs[i])

\* the loop of line 79 from candidate i on: the event of the first candidate
\* that passes its test, None when the list is exhausted
RECURSIVE scan_candidates(_, _, _)
scan_candidates(data, cs, i) ==
    IF i > Len(cs) THEN None
    ELSE IF try_candidate(data, cs[i]) # None THEN try_candidate(data, cs[i])
    ELSE scan_candidates(data, cs, i + 1)

ArrayKeys == <<"list", "rows", "data", "resultList">>

\* variant: the array keys are tried from the last to the first
RECURSIVE last_array(_, _)
last_array(data, i) ==
    IF i > Len(ArrayKeys) THEN None
    ELSE LET arr  == safe_get(data, <<ArrayKeys[i]>>)
             rest == last_array(data, i + 1)
         IN  IF rest # None THEN rest
             ELSE IF arr.k = "list" /\ Truthy(arr) THEN arr ELSE None

\* lines 93-96: the first non-empty list under the array keys, None if there is none
RECURSIVE first_array(_, _)
first_array(data, i) ==
    IF i > Len(ArrayKeys) THEN None
    ELSE LET arr == safe_get(data, <<ArrayKeys[i]>>)
         IN  IF arr.k = "list" /\ Truthy(arr) THEN arr ELSE first_array(data, i + 1)

----------------------------------------------------------------------------
(* json.loads, for the JSON texts built from whitespace, brackets, braces,  *)
(* double-quoted strings without escapes, integers and true/false/null.    *)
(* A result is [ok, val, pos]: pos is the index behind the parsed text.    *)

JsonFail == [ok |-> FALSE, val |-> None, pos |-> 0]

JsonOk(val, pos) == [ok |-> TRUE, val |-> val, pos |-> pos]

\* index of the first non-whitespace character at or after p
RECURSIVE skip_ws(_, _)
skip_ws(s, p) == IF p <= Len(s) /\ IsSpace(s[p]) THEN skip_ws(s, p + 1) ELSE p

At(s, p) == IF p >= 1 /\ p <= Len(s) THEN s[p] ELSE "<end>"

\* whether the characters of w stand in s from p on
HasWord(s, p, w) == p + Len(w) - 1 <= Len(s) /\ SubSeq(s, p, p + Len(w) - 1) = w

\* index behind the digit run that starts at p
RECURSIVE digits_end(_, _)
digits_end(s, p) == IF IsDigit(At(s, p)) THEN digits_end(s, p + 1) ELSE p

\* -?(0|[1-9][0-9]*) from p on
json_int(s, p) ==
    LET neg   == At(s, p) = "-"
        start == IF neg THEN p + 1 ELSE p
        stop  == IF At(s, start) = "0" THEN start + 1 ELSE digits_end(s, start)
        mag   == StrToNat(SubSeq(s, start, stop - 1))
    IN  IF stop = start THEN JsonFail
        ELSE JsonOk(I(IF neg THEN 0 - mag ELSE mag), stop)

\* index of the closing quote of the string whose first character is at p, 0 if
\* the text ends or holds a backslash or control character first
RECURSIVE string_end(_, _)
string_end(s, p) ==
    IF p > Len(s) THEN 0
    ELSE IF s[p] = "\"" THEN p
    ELSE IF s[p] \in {"\\", "\t", "\n", "\r"} THEN 0
    ELSE string_end(s, p + 1)

\* a string literal whose opening quote is at p
json_string(s, p) ==
    LET close == string_end(s, p + 1)
    IN  IF At(s, p) # "\"" \/ close = 0 THEN JsonFail
        ELSE JsonOk(S(SubSeq(s, p + 1, close - 1)), close + 1)

\* the key text as a map key
RECURSIVE Join(_)
Join(cs) == IF cs = <<>> THEN "" ELSE Head(cs) \o Join(Tail(cs))

RECURSIVE json_value(_, _)
RECURSIVE json_array_items(_, _, _)
RECURSIVE json_object_items(_, _, _)

\* the elements of an array from p on (behind "[" or ","), acc holds those read
json_array_items(s, p, acc) ==
    LET item == json_value(s, p)
        q    == skip_ws(s, item.pos)
    IN  IF ~item.ok THEN JsonFail
        ELSE IF At(s, q) = "," THEN json_array_items(s, skip_ws(s, q + 1), Append(acc, item.val))
        ELSE IF At(s, q) = "]" THEN JsonOk(L(Append(acc, item.val)), q + 1)
        ELSE JsonFail

\* the members of an object from p on (behind "{" or ","), acc holds those read;
\* a repeated key keeps its last value
json_object_items(s, p, acc) ==
    LET key   == json_string(s, p)
        colon == skip_ws(s, key.pos)
        item  == json_value(s, skip_ws(s, colon + 1))
        q     == skip_ws(s, item.pos)
        acc2  == (Join(key.val.v) :> item.val) @@ acc
    IN  IF ~key.ok \/ At(s, colon) # ":" THEN JsonFail
        ELSE IF ~item.ok THEN JsonFail
        ELSE IF At(s, q) = "," THEN json_object_items(s, skip_ws(s, q + 1), acc2)
        ELSE IF At(s, q) = "}" THEN JsonOk(M(acc2), q + 1)
        ELSE JsonFail

\* one JSON value whose first character is at p
json_value(s, p) ==
    LET c == At(s, p)
    IN  IF c = "\"" THEN json_string(s, p)
        ELSE IF c = "[" THEN
            (IF At(s, skip_ws(s, p + 1)) = "]" THEN JsonOk(L(<<>>), skip_ws(s, p + 1) + 1)
             ELSE json_array_items(s, skip_ws(s, p + 1), <<>>))
        ELSE IF c = "{" THEN
            (IF At(s, skip_ws(s, p + 1)) = "}" THEN JsonOk(M(<<>>), skip_ws(s, p + 1) + 1)
             ELSE json_object_items(s, skip_ws(s, p + 1), <<>>))
        ELSE IF HasWord(s, p, <<"n", "u", "l", "l">>) THEN JsonOk(None, p + 4)
        ELSE IF HasWord(s, p, <<"t", "r", "u", "e">>) THEN JsonOk(B(TRUE), p + 4)
        ELSE IF HasWord(s, p, <<"f", "a", "l", "s", "e">>) THEN JsonOk(B(FALSE), p + 5)
        ELSE json_int(s, p)

\* json.loads(s): ok is FALSE where json.loads raises
json_loads(s) ==
    LET r == json_value(s, skip_ws(s, 1))
    IN  IF r.ok /\ skip_ws(s, r.pos) = Len(s) + 1 THEN r ELSE JsonFail

startswith(s, c) == s # <<>> /\ s[1] = c

endswith(s, c) == s # <<>> /\ s[Len(s)] = c

\* parse_number_from_payload(data): an event, or None
RECURSIVE parse_number_from_payload(_)
parse_number_from_payload(data) ==
    LET direct == scan_candidates(data, candidates(data), 1)
        arr    == first_array(data, 1)
        s      == strip(data.v)
        loaded == json_loads(s)
        m      == re_search_digits(s)
    IN  IF data.k = "map" /\ direct # None THEN direct
        ELSE IF data.k = "map" /\ arr # None THEN parse_number_from_payload(arr.v[Len(arr.v)])
        ELSE IF data.k = "str" /\ ( \/ (startswith(s, "{") /\ endswith(s, "}"))
                                    \/ (startswith(s, "[") /\ endswith(s, "]")) )
                               /\ loaded.ok
             THEN parse_number_from_payload(loaded.val)
        ELSE IF data.k = "str" /\ m # <<>> /\ in_range(StrToNat(m))
             THEN Event(None, I(StrToNat(m)), data)
        ELSE IF data.k = "list" /\ Truthy(data)
             THEN parse_number_from_payload(data.v[Len(data.v)])
        ELSE None

----------------------------------------------------------------------------
(* Signal classifier *)

\* variant: n > big_threshold
big_small_strict(n, big_threshold) == IF Num(n) > big_threshold THEN "BIG" ELSE "SMALL"

\* line 120
big_small(n, big_threshold) == IF Num(n) >= big_threshold THEN "BIG" ELSE "SMALL"

\* line 121
even_odd(n) == IF Num(n) % 2 = 0 THEN "EVEN" ELSE "ODD"

\* variant: the boundary pair is taken above the threshold
confidence_pair_above(n, big_threshold) ==
    LET c0 == 60
        c1 == IF Num(n) \in {big_threshold, big_threshold + 1} THEN 55 ELSE c0
        c2 == IF Num(n) \in {0, 9} THEN 65 ELSE c1
    IN  c2

\* variant: the two tests run in the other order
confidence_boundary_last(n, big_threshold) ==
    LET c0 == 60
        c1 == IF Num(n) \in {0, 9} THEN 65 ELSE c0
        c2 == IF Num(n) \in {big_threshold, big_threshold - 1} THEN 55 ELSE c1
    IN  c2

\* lines 124-128: the two tests run one after the other on the same variable
confidence(n, big_threshold) ==
    LET c0 == 60
        c1 == IF Num(n) \in {big_threshold, big_threshold - 1} THEN 55 ELSE c0
        c2 == IF Num(n) \in {0, 9} THEN 65 ELSE c1
    IN  c2

\* make_signal(n); meta.notes renders num and the two labels again and is left out
make_signal(n) ==
    LET big_threshold == CONFIG.BIG_THRESHOLD
    IN  [ decision   |-> big_small(n, big_threshold) \o " / " \o even_odd(n),
          confidence |-> confidence(n, big_threshold),
          meta       |-> [num |-> n] ]

----------------------------------------------------------------------------
(* Dedup window and pipeline *)

\* dedup_key(issue, n): the issue, or "<n>-<minute>" when there is none
\* variant: the fallback key carries the second instead of the minute
dedup_key_by_second(issue, n) ==
    IF Truthy(issue) THEN issue.v
    ELSE PyStr(n) \o <<"-">> \o IntToStr(now)

\* variant: the number is made part of the key of an event with an issue
dedup_key_with_number(issue, n) ==
    IF Truthy(issue) THEN issue.v \o <<"-">> \o PyStr(n)
    ELSE PyStr(n) \o <<"-">> \o IntToStr(now \div 60)

dedup_key(issue, n) ==
    IF Truthy(issue) THEN issue.v
    ELSE PyStr(n) \o <<"-">> \o IntToStr(now \div 60)

\* variant: only the newest key is compared
ContainsNewestOnly(keys, dkey) == keys # <<>> /\ keys[Len(keys)] = dkey

\* dkey in SEEN_KEYS
Contains(keys, dkey) == \E i \in 1..Len(keys) : keys[i] = dkey

\* variant: del keys[max_keep:], pruning the newest keys instead of the oldest
del_back(keys, max_keep) ==
    SubSeq(keys, 1, IF max_keep > Len(keys) THEN Len(keys) ELSE max_keep)

\* variant: del keys[:-(max_keep - 1)], pruning one key too many
del_front_one_more(keys, max_keep) ==
    IF max_keep <= 1 THEN keys
    ELSE SubSeq(keys, Len(keys) - (max_keep - 1) + 1, Len(keys))

\* del keys[:-max_keep]: the slice stops at index -max_keep, counted from the
\* end when that is negative and clamped to the list
del_front(keys, max_keep) ==
    LET stop0 == 0 - max_keep
        stop  == IF stop0 < 0
                 THEN (IF stop0 + Len(keys) < 0 THEN 0 ELSE stop0 + Len(keys))
                 ELSE (IF stop0 > Len(keys) THEN Len(keys) ELSE stop0)
    IN  SubSeq(keys, stop + 1, Len(keys))

\* lines 184-187: append, then prune when the list is longer than DEDUP_WINDOW
remember(keys, dkey, max_keep) ==
    LET appended == Append(keys, dkey)
    IN  IF Len(appended) > max_keep THEN del_front(appended, max_keep) ELSE appended

\* variant: the payload is built without the issue
PayloadNoIssue(issue, n) ==
    [k |-> "report", v |-> [issue |-> None, created_at |-> now, signal |-> make_signal(n)]]

\* the payload of lines 190-197; symbol, timeframe and game are configuration
\* texts copied in unchanged and are left out
Payload(issue, n) ==
    [k |-> "report", v |-> [issue |-> issue, created_at |-> now, signal |-> make_signal(n)]]

\* push_to_web(payload): what one call can do. "skipped" is the early return
\* of lines 142-144; requests.post either answers ("sent", whatever the status
\* code) or raises, and the exception is caught and logged ("failed")
push_to_web(cfg) ==
    IF ~cfg.WEB_READY THEN {"skipped"} ELSE {"sent", "failed"}

\* push_telegram(text): the same shape, lines 153-162
push_telegram(cfg) ==
    IF ~cfg.TELEGRAM_READY THEN {"skipped"} ELSE {"sent", "failed"}

\* variant: an exception of the web push ends handle_result
deliver_abort(cfg) ==
    { [web |-> w, tg |-> (IF w = "failed" THEN "none" ELSE t)] :
        w \in (IF cfg.SEND_TO_WEB THEN push_to_web(cfg) ELSE {"none"}),
        t \in (IF cfg.SEND_TO_TELEGRAM THEN push_telegram(cfg) ELSE {"none"}) }

\* lines 200-208: the web push when SEND_TO_WEB, then the Telegram push when
\* SEND_TO_TELEGRAM; "none" is a sink that was not called
deliver(cfg) ==
    { [web |-> w, tg |-> t] :
        w \in (IF cfg.SEND_TO_WEB THEN push_to_web(cfg) ELSE {"none"}),
        t \in (IF cfg.SEND_TO_TELEGRAM THEN push_telegram(cfg) ELSE {"none"}) }

\* variant: a key that is already in the list is moved to its end
handle_result_refresh(result) ==
    LET n     == result.v.number
        issue == result.v.issue
        dkey  == dedup_key(issue, n)
    IN  IF Contains(SEEN_KEYS, dkey)
        THEN /\ report' = None
             /\ SEEN_KEYS' = Append(SelectSeq(SEEN_KEYS, LAMBDA key : key # dkey), dkey)
             /\ UNCHANGED <<reports, sinks>>
        ELSE /\ SEEN_KEYS' = remember(SEEN_KEYS, dkey, CONFIG.DEDUP_WINDOW)
             /\ report' = Payload(issue, n)
             /\ reports' = Append(reports, report')
             /\ \E o \in deliver(CONFIG) :
                   sinks' = Append(sinks, [web |-> o.web, tg |-> o.tg, seen |-> SEEN_KEYS'])

\* handle_result(result), lines 178-208. An entry of sinks is what the
\* deliveries of lines 200-208 did for the payload, with the SEEN_KEYS they
\* ran under: the list as lines 184-187 left it
handle_result(result) ==
    LET n     == result.v.number
        issue == result.v.issue
        dkey  == dedup_key(issue, n)
    IN  IF Contains(SEEN_KEYS, dkey)
        THEN /\ report' = None
             /\ UNCHANGED <<SEEN_KEYS, reports, sinks>>
        ELSE /\ SEEN_KEYS' = remember(SEEN_KEYS, dkey, CONFIG.DEDUP_WINDOW)
             /\ report' = Payload(issue, n)
             /\ reports' = Append(reports, report')
             /\ \E o \in deliver(CONFIG) :
                   sinks' = Append(sinks, [web |-> o.web, tg |-> o.tg, seen |-> SEEN_KEYS'])

\* lines 238-240 and 266-268: normalise, then hand an event to handle_result
process(data) ==
    /\ calls' = calls + 1
    /\ raw' = data
    /\ parsed' = parse_number_from_payload(data)
    /\ IF parsed' # None
       THEN handle_result(parsed')
       ELSE /\ report' = None
            /\ UNCHANGED <<SEEN_KEYS, reports, sinks>>

----------------------------------------------------------------------------
(* Inputs *)

DefaultThreshold == 5      \* CONFIG.get("BIG_THRESHOLD", 5)
DefaultWindow    == 200    \* CONFIG.get("DEDUP_WINDOW", 200)

\* the sink settings when the configuration names none of them: SEND_TO_WEB
\* defaults to True, SEND_TO_TELEGRAM to False, and the web address, the API
\* key, the bot token and the chat id to "". WEB_READY stands for "WEB_PUSH_URL
\* and WEB_API_KEY are both set", TELEGRAM_READY for "TELEGRAM_BOT_TOKEN and
\* TELEGRAM_CHAT_ID are both set"
DefaultSinks ==
    [SEND_TO_WEB |-> TRUE, WEB_READY |-> FALSE, SEND_TO_TELEGRAM |-> FALSE, TELEGRAM_READY |-> FALSE]

\* a configuration record
Config(big_threshold, dedup_window, s) ==
    [BIG_THRESHOLD |-> big_threshold, DEDUP_WINDOW |-> dedup_window,
     SEND_TO_WEB |-> s.SEND_TO_WEB, WEB_READY |-> s.WEB_READY,
     SEND_TO_TELEGRAM |-> s.SEND_TO_TELEGRAM, TELEGRAM_READY |-> s.TELEGRAM_READY]

\* no handler thread is running
NoThreads == <<>>

\* a key that the mapping does not hold
Absent == [k |-> "absent", v |-> 0]

\* the mapping that holds pairs[i][1] |-> pairs[i][2] for every pair whose value is not Absent
MapOf(pairs) ==
    LET present == {i \in 1..Len(pairs) : pairs[i][2] # Absent}
        keyset  == {pairs[i][1] : i \in present}
    IN  M([key \in keyset |-> pairs[CHOOSE i \in present : pairs[i][1] = key][2]])

\* a value nested under "number" of an inner mapping, Absent staying Absent
Nested(c) == IF c = Absent THEN Absent ELSE M("number" :> c)

Alphabet == {"a", " ", "7", "1", "[", "]"}

AllStrs == UNION {[1..n -> Alphabet] : n \in 0..MaxStrLen}

TEXT_ROUND ==
    <<"r", "o", "u", "n", "d", " ", "r", "e", "s", "u", "l", "t", ":", " ", "4", "2">>

TEXT_VALUE ==
    <<"v", "a", "l", "u", "e", ":", " ", "1", "2", "3">>

TEXT_OBJ7 ==
    <<"{", "\"", "n", "u", "m", "b", "e", "r", "\"", ":", "7", ",", "\"", "i", "s", "s", "u", "e", "\"", ":", "\"", "X", "1", "\"", "}">>

TEXT_OBJ150 ==
    <<"{", "\"", "n", "u", "m", "b", "e", "r", "\"", ":", " ", "1", "5", "0", "}">>

TEXT_OBJSTR ==
    <<" ", "{", "\"", "r", "e", "s", "u", "l", "t", "\"", ":", "\"", "n", "o", " ", "4", "2", "\"", ",", "\"", "p", "e", "r", "i", "o", "d", "\"", ":", "1", "2", "}", " ">>

TEXT_LIST ==
    <<"{", "\"", "l", "i", "s", "t", "\"", ":", "[", "{", "\"", "n", "u", "m", "b", "e", "r", "\"", ":", "3", "}", ",", "{", "\"", "n", "u", "m", "b", "e", "r", "\"", ":", "8", "}", "]", "}">>

TEXT_ARRSTR ==
    <<"[", "1", ",", " ", "\"", "7", " ", "\"", "]">>

TEXT_BROKEN ==
    <<"{", "\"", "n", "u", "m", "b", "e", "r", "\"", ":", "7", ",", "}">>

\* texts from the documentation and JSON texts longer than MaxStrLen
Texts ==
    { TEXT_ROUND,
      TEXT_VALUE,
      TEXT_OBJ7,
      TEXT_OBJ150,
      TEXT_OBJSTR,
      TEXT_LIST,
      TEXT_ARRSTR,
      TEXT_BROKEN }

CandVals ==
    {I(n) : n \in (0 - 1)..MaxNumber} \cup {I(150)} \cup {S(s) : s \in AllStrs}
        \cup {B(TRUE), B(FALSE), None, L(<<>>), M(<<>>)}

\* one candidate field, of any content
SingleMaps ==
    {M(key :> c) : key \in {"number", "result", "openCode", "lucky"}, c \in CandVals}
        \cup {M(key :> M("number" :> c)) : key \in {"lottery", "data"}, c \in CandVals}

\* what candidate i may hold: nothing, an integer in range, an integer out of
\* range, a text ending in digits, and a text without digits (odd i) or a value
\* of another type (even i); the two nested candidates go without the last
Slot(i) ==
    {Absent, I(i), I(100 + i), S(<<"a", Digits[i + 1], Digits[i + 1]>>)}
        \cup (IF i > 4 THEN {} ELSE IF i % 2 = 1 THEN {S(<<"a">>)} ELSE {None})

\* every combination of the six candidates
PriorityMaps ==
    {MapOf(<< <<"number", c[1]>>, <<"result", c[2]>>, <<"openCode", c[3]>>, <<"lucky", c[4]>>,
              <<"lottery", Nested(c[5])>>, <<"data", Nested(c[6])>> >>) :
        c \in Slot(1) \X Slot(2) \X Slot(3) \X Slot(4) \X Slot(5) \X Slot(6)}

IssueVals ==
    {Absent, None, S(<<>>), S(<<"X", "1">>), S(<<" ">>), I(0), I(12), B(FALSE), B(TRUE)}

\* a valid number with every combination of the three issue fields
IssueMaps ==
    {MapOf(<< <<"number", I(7)>>, <<"issue", c[1]>>, <<"expect", c[2]>>, <<"period", c[3]>> >>) :
        c \in IssueVals \X IssueVals \X IssueVals}

\* the documented array message {"list": [{"number": 3}, {"number": 8}]}
ExampleArray == M("list" :> L(<<M("number" :> I(3)), M("number" :> I(8))>>))

\* what array key j may hold
ArraySlot(j) ==
    {Absent, L(<<>>), S(<<"a">>), L(<<I(5)>>),
     L(<<M("number" :> I(3)), M(("number" :> I(10 + j)) @@ ("issue" :> S(<<"X", "1">>)))>>)}

\* every combination of the four array keys, with and without a direct candidate
ArrayMaps ==
    {MapOf(<< <<"number", c[1]>>, <<"list", c[2]>>, <<"rows", c[3]>>, <<"data", c[4]>>,
              <<"resultList", c[5]>> >>) :
        c \in {Absent, I(150), I(7)} \X ArraySlot(1) \X ArraySlot(2) \X ArraySlot(3) \X ArraySlot(4)}

ListElems ==
    {I(7), None, S(<<"4", "2">>), S(<<"a">>), M("number" :> I(3)), M("number" :> I(150)),
     L(<<>>), L(<<M("number" :> I(8))>>)}

Lists == {L(e) : e \in UNION {[1..n -> ListElems] : n \in 0..2}}

\* the inputs of the normaliser specification
ParseInputs ==
    SingleMaps \cup PriorityMaps \cup IssueMaps \cup ArrayMaps \cup Lists \cup {ExampleArray}
        \cup {S(s) : s \in AllStrs \cup Texts}
        \cup {I(7), I(150), B(TRUE), None, M(<<>>)}

\* the messages of the pipeline specification
FeedMessages ==
    { M(("number" :> I(3)) @@ ("issue" :> S(<<"a">>))),
      M("list" :> L(<<M(("number" :> I(3)) @@ ("issue" :> S(<<"b">>))),
                      M(("number" :> I(9)) @@ ("period" :> S(<<"a">>)))>>)),
      M(("result" :> S(<<"n", "o", " ", "3">>)) @@ ("expect" :> S(<<"3", "-", "1">>))),
      M("number" :> I(3)),
      None }

----------------------------------------------------------------------------
(* Pipeline specification: main() runs the backfill once, then the feed     *)
(* handlers run one message at a time while the clock advances.            *)

Init ==
    /\ pc = "backfill"
    /\ CONFIG \in { Config(DefaultThreshold, w, DefaultSinks) : w \in 0..MaxWindow }
    /\ SEEN_KEYS = <<>>
    /\ now = 0
    /\ raw = None
    /\ parsed = None
    /\ report = None
    /\ reports = <<>>
    /\ calls = 0
    /\ sinks = <<>>
    /\ th = NoThreads
    /\ num = I(0)
    /\ sig = None

\* poll_history_backfill() with no HISTORY_URL, a failed request or a status other than 200
BackfillSkipped ==
    /\ pc = "backfill"
    /\ pc' = "run"
    /\ UNCHANGED <<CONFIG, SEEN_KEYS, now, raw, parsed, report, reports, calls, sinks, th, num, sig>>

\* poll_history_backfill() when the history request answers 200 with a JSON body
poll_history_backfill ==
    /\ pc = "backfill"
    /\ \E data \in FeedMessages : process(data)
    /\ pc' = "run"
    /\ UNCHANGED <<CONFIG, now, th, num, sig>>

\* _handler(data) of any of the COMMON_EVENTS
handler ==
    /\ pc = "run"
    /\ calls < MaxCalls
    /\ \E data \in FeedMessages : process(data)
    /\ UNCHANGED <<pc, CONFIG, now, th, num, sig>>

\* the clock moves on between two messages
Tick ==
    /\ pc = "run"
    /\ \E d \in {30, 60} :
        /\ now + d <= MaxNow
        /\ now' = now + d
    /\ UNCHANGED <<pc, CONFIG, SEEN_KEYS, raw, parsed, report, reports, calls, sinks, th, num, sig>>

Next == BackfillSkipped \/ poll_history_backfill \/ handler \/ Tick

Spec == Init /\ [][Next]_vars

----------------------------------------------------------------------------
(* Sink specification: the pipeline under every sink setting, each delivery *)
(* either answering or raising.                                            *)

\* every setting of the two sinks
SinkSettings ==
    [SEND_TO_WEB : BOOLEAN, WEB_READY : BOOLEAN, SEND_TO_TELEGRAM : BOOLEAN, TELEGRAM_READY : BOOLEAN]

InitSinks ==
    /\ pc = "backfill"
    /\ CONFIG \in { Config(DefaultThreshold, w, s) : w \in 0..MaxWindow, s \in SinkSettings }
    /\ SEEN_KEYS = <<>>
    /\ now = 0
    /\ raw = None
    /\ parsed = None
    /\ report = None
    /\ reports = <<>>
    /\ calls = 0
    /\ sinks = <<>>
    /\ th = NoThreads
    /\ num = I(0)
    /\ sig = None

\* _handler(data) of any of the COMMON_EVENTS, for the first MaxSinkCalls messages
HandlerSinks ==
    /\ pc = "run"
    /\ calls < MaxSinkCalls
    /\ \E data \in FeedMessages : process(data)
    /\ UNCHANGED <<pc, CONFIG, now, th, num, sig>>

NextSinks == BackfillSkipped \/ poll_history_backfill \/ HandlerSinks

SpecSinks == InitSinks /\ [][NextSinks]_vars

----------------------------------------------------------------------------
(* Thread specification: handlers running as threads. bot.py takes no lock  *)
(* in handle_result, so two handlers that run at the same time interleave   *)
(* between any two of its statements.                                      *)

Threads == 1..NumThreads

\* a thread that is not inside _handler
IdleThread == [at |-> "idle", ev |-> None, dkey |-> <<>>]

InitThreads ==
    /\ pc = "run"
    /\ CONFIG \in { Config(DefaultThreshold, w, DefaultSinks) : w \in 1..MaxWindow }
    /\ SEEN_KEYS = <<>>
    /\ now = 0
    /\ raw = None
    /\ parsed = None
    /\ report = None
    /\ reports = <<>>
    /\ calls = 0
    /\ sinks = <<>>
    /\ th = [t \in Threads |-> IdleThread]
    /\ num = I(0)
    /\ sig = None

\* lines 233-240 and 179-181: the handler normalises its message and, with an
\* event, enters handle_result and computes the key
handler_enter(t) ==
    /\ th[t].at = "idle"
    /\ calls < MaxThreadCalls
    /\ \E data \in FeedMessages :
          /\ raw' = data
          /\ parsed' = parse_number_from_payload(data)
    /\ calls' = calls + 1
    /\ th' = IF parsed' = None THEN th
             ELSE [th EXCEPT ![t] = [at |-> "test", ev |-> parsed',
                                     dkey |-> dedup_key(parsed'.v.issue, parsed'.v.number)]]
    /\ UNCHANGED <<pc, CONFIG, SEEN_KEYS, now, report, reports, sinks, num, sig>>

\* lines 182-183: the membership test and the early return
handler_test(t) ==
    /\ th[t].at = "test"
    /\ IF Contains(SEEN_KEYS, th[t].dkey)
       THEN /\ th' = [th EXCEPT ![t] = IdleThread]
            /\ report' = None
       ELSE /\ th' = [th EXCEPT ![t].at = "append"]
            /\ UNCHANGED report
    /\ UNCHANGED <<pc, CONFIG, SEEN_KEYS, now, raw, parsed, reports, calls, sinks, num, sig>>

\* line 184: SEEN_KEYS.append(dkey)
handler_append(t) ==
    /\ th[t].at = "append"
    /\ SEEN_KEYS' = Append(SEEN_KEYS, th[t].dkey)
    /\ th' = [th EXCEPT ![t].at = "prune"]
    /\ UNCHANGED <<pc, CONFIG, now, raw, parsed, report, reports, calls, sinks, num, sig>>

\* lines 185-187: the pruning
handler_prune(t) ==
    /\ th[t].at = "prune"
    /\ SEEN_KEYS' = IF Len(SEEN_KEYS) > CONFIG.DEDUP_WINDOW
                    THEN del_front(SEEN_KEYS, CONFIG.DEDUP_WINDOW)
                    ELSE SEEN_KEYS
    /\ th' = [th EXCEPT ![t].at = "emit"]
    /\ UNCHANGED <<pc, CONFIG, now, raw, parsed, report, reports, calls, sinks, num, sig>>

\* lines 189-208: the payload, the SIGNAL log line and the deliveries
handler_emit(t) ==
    /\ th[t].at = "emit"
    /\ report' = Payload(th[t].ev.v.issue, th[t].ev.v.number)
    /\ reports' = Append(reports, report')
    /\ \E o \in deliver(CONFIG) :
          sinks' = Append(sinks, [web |-> o.web, tg |-> o.tg, seen |-> SEEN_KEYS])
    /\ th' = [th EXCEPT ![t] = IdleThread]
    /\ UNCHANGED <<pc, CONFIG, SEEN_KEYS, now, raw, parsed, calls, num, sig>>

NextThreads ==
    \E t \in Threads :
        \/ handler_enter(t)
        \/ handler_test(t)
        \/ handler_append(t)
        \/ handler_prune(t)
        \/ handler_emit(t)

SpecThreads == InitThreads /\ [][NextThreads]_vars

----------------------------------------------------------------------------
(* Connection specification: main() from line 287 on, after a backfill that *)
(* had no HISTORY_URL. pc is "connect" at line 289 before sio.connect,      *)
(* "run" while main() is blocked in sio.wait() and the handlers fire,       *)
(* "heartbeat" at line 299, "hb_sleep" at line 302, "exit" after a return.  *)

InitMain ==
    /\ pc = "connect"
    /\ CONFIG \in { Config(DefaultThreshold, w, DefaultSinks) : w \in 1..MaxWindow }
    /\ SEEN_KEYS = <<>>
    /\ now = 0
    /\ raw = None
    /\ parsed = None
    /\ report = None
    /\ reports = <<>>
    /\ calls = 0
    /\ sinks = <<>>
    /\ th = NoThreads
    /\ num = I(0)
    /\ sig = None

\* line 252 succeeds: connect_socket() goes on to sio.wait()
connect_ok ==
    /\ pc = "connect"
    /\ pc' = "run"
    /\ UNCHANGED <<CONFIG, SEEN_KEYS, now, raw, parsed, report, reports, calls, sinks, th, num, sig>>

\* line 252 raises: lines 292-294 log the error and sleep, and control falls
\* through to the heartbeat loop of line 298
connect_error ==
    /\ pc = "connect"
    /\ pc' = "heartbeat"
    /\ UNCHANGED <<CONFIG, SEEN_KEYS, now, raw, parsed, report, reports, calls, sinks, th, num, sig>>

\* sio.wait() returns: connect_socket() returns and control reaches line 298
wait_returns ==
    /\ pc = "run"
    /\ pc' = "heartbeat"
    /\ UNCHANGED <<CONFIG, SEEN_KEYS, now, raw, parsed, report, reports, calls, sinks, th, num, sig>>

\* lines 299-301: the heartbeat, when one is due
heartbeat_check ==
    /\ pc = "heartbeat"
    /\ pc' = "hb_sleep"
    /\ UNCHANGED <<CONFIG, SEEN_KEYS, now, raw, parsed, report, reports, calls, sinks, th, num, sig>>

\* lines 302 and 305-306: the sleep, then the next round of the inner
\* "while True", which has no break
heartbeat_sleep ==
    /\ pc = "hb_sleep"
    /\ pc' = "heartbeat"
    /\ UNCHANGED <<CONFIG, SEEN_KEYS, now, raw, parsed, report, reports, calls, sinks, th, num, sig>>

\* SIGINT or SIGTERM: on_sigint raises SystemExit and main() returns (lines
\* 290-291 and 303-304)
shutdown ==
    /\ pc \in {"connect", "run", "heartbeat", "hb_sleep"}
    /\ pc' = "exit"
    /\ UNCHANGED <<CONFIG, SEEN_KEYS, now, raw, parsed, report, reports, calls, sinks, th, num, sig>>

NextMain ==
    \/ connect_ok
    \/ connect_error
    \/ HandlerSinks
    \/ wait_returns
    \/ heartbeat_check
    \/ heartbeat_sleep
    \/ shutdown

\* the main thread keeps running: whatever statement it is at gets executed.
\* Messages, the end of sio.wait() and signals come from outside and are not
\* required to happen.
SpecMain ==
    /\ InitMain
    /\ [][NextMain]_vars
    /\ WF_vars(connect_ok \/ connect_error)
    /\ WF_vars(heartbeat_check)
    /\ WF_vars(heartbeat_sleep)

----------------------------------------------------------------------------
(* Normaliser specification: one message of any shape, handled by a fresh   *)
(* process.                                                                 *)

InitParse ==
    /\ pc = "parse"
    /\ CONFIG = Config(DefaultThreshold, DefaultWindow, DefaultSinks)
    /\ SEEN_KEYS = <<>>
    /\ now = 0
    /\ raw \in ParseInputs
    /\ parsed = None
    /\ report = None
    /\ reports = <<>>
    /\ calls = 0
    /\ sinks = <<>>
    /\ th = NoThreads
    /\ num = I(0)
    /\ sig = None

Normalize ==
    /\ pc = "parse"
    /\ process(raw)
    /\ pc' = "parsed"
    /\ UNCHANGED <<CONFIG, now, th, num, sig>>

NextParse == Normalize

SpecParse == InitParse /\ [][NextParse]_vars

----------------------------------------------------------------------------
(* Classifier specification: one number, one threshold.                     *)

Numbers == {I(n) : n \in 0..99} \cup {B(FALSE), B(TRUE)}

InitSignal ==
    /\ pc = "classify"
    /\ CONFIG \in { Config(t, DefaultWindow, DefaultSinks) : t \in (0 - 1)..MaxThreshold }
    /\ SEEN_KEYS = <<>>
    /\ now = 0
    /\ raw = None
    /\ parsed = None
    /\ report = None
    /\ reports = <<>>
    /\ calls = 0
    /\ sinks = <<>>
    /\ th = NoThreads
    /\ num \in Numbers
    /\ sig = None

Classify ==
    /\ pc = "classify"
    /\ sig' = make_signal(num)
    /\ pc' = "classified"
    /\ UNCHANGED <<CONFIG, SEEN_KEYS, now, raw, parsed, report, reports, calls, sinks, th, num>>

NextSignal == Classify

SpecSignal == InitSignal /\ [][NextSignal]_vars

----------------------------------------------------------------------------
(* Properties of the pipeline specification *)

Range(f) == {f[i] : i \in DOMAIN f}

Min(a, b) == IF a < b THEN a ELSE b

\* a step in which one message went through the pipeline
ProcessStep == calls' = calls + 1

\* the dedup key of an event that arrives at time t: its issue when it has one,
\* else its number and the minute of t
EventKey(ev, t) ==
    IF ev.v.issue # None THEN ev.v.issue.v
    ELSE PyStr(ev.v.number) \o <<"-">> \o IntToStr(t \div 60)

\* the dedup key under which a payload was accepted
ReportKey(r) ==
    IF r.v.issue # None THEN r.v.issue.v
    ELSE PyStr(r.v.signal.meta.num) \o <<"-">> \o IntToStr(r.v.created_at \div 60)

ReportKeys(rs) == [i \in 1..Len(rs) |-> ReportKey(rs[i])]

\* the last n elements of a sequence
LastN(q, n) == SubSeq(q, Len(q) - Min(n, Len(q)) + 1, Len(q))

\* C1: a key that was never accepted before is accepted when it is presented
\* (a payload is built), and a key that is in SEEN_KEYS when it is presented is
\* dropped: no payload is built and the window stays as it is.
DedupWithinWindow ==
    [][ (ProcessStep /\ parsed' # None) =>
          LET key == EventKey(parsed', now)
          IN  /\ key \notin Range(ReportKeys(reports)) =>
                    /\ report' # None
                    /\ reports' = Append(reports, report')
              /\ key \in Range(SEEN_KEYS) =>
                    /\ report' = None
                    /\ reports' = reports ]_vars

\* C1 witness: the message handled last carried a key that was accepted
\* earlier and is still in the window, and it was dropped.
DedupWithinWindowWitness ==
    /\ calls >= 2
    /\ parsed # None
    /\ report = None
    /\ EventKey(parsed, now) \in Range(SEEN_KEYS)
    /\ EventKey(parsed, now) \in Range(ReportKeys(reports))

\* C2 as stated: no two payloads carry the same issue.
AtMostOncePerIssue ==
    \A i, j \in 1..Len(reports) :
        (i < j /\ reports[i].v.issue # None) => reports[i].v.issue # reports[j].v.issue

\* C2 amended: two payloads with the same issue have at least DEDUP_WINDOW
\* other payloads between them, so any DEDUP_WINDOW + 1 consecutive payloads
\* carry pairwise different issues.
AtMostOncePerIssueInWindow ==
    \A i, j \in 1..Len(reports) :
        (i < j /\ reports[i].v.issue # None /\ reports[i].v.issue = reports[j].v.issue)
            => j - i > CONFIG.DEDUP_WINDOW

\* C2 witness: an issue was reported a second time after it left the window.
AtMostOncePerIssueInWindowWitness ==
    /\ CONFIG.DEDUP_WINDOW = 1
    /\ \E i, j \in 1..Len(reports) :
        /\ j = i + 2
        /\ reports[i].v.issue # None
        /\ reports[i].v.issue = reports[j].v.issue

\* C3 as stated: the window never holds more than DEDUP_WINDOW keys.
WindowSizeBound == Len(SEEN_KEYS) <= CONFIG.DEDUP_WINDOW

\* with a capacity of at least one, the window is the last
\* min(DEDUP_WINDOW, accepted) accepted keys in acceptance order
WindowIsNewestAccepted ==
    CONFIG.DEDUP_WINDOW >= 1 =>
        SEEN_KEYS = LastN(ReportKeys(reports), CONFIG.DEDUP_WINDOW)

\* a key that was accepted and is no longer among the last DEDUP_WINDOW
\* accepted keys is accepted again
EvictedIsAcceptedAgain ==
    (ProcessStep /\ parsed' # None /\ CONFIG.DEDUP_WINDOW >= 1) =>
        LET key == EventKey(parsed', now)
        IN  (/\ key \in Range(ReportKeys(reports))
             /\ key \notin Range(LastN(ReportKeys(reports), CONFIG.DEDUP_WINDOW)))
                => /\ report' # None
                   /\ SEEN_KEYS'[Len(SEEN_KEYS')] = key

\* C4: FIFO eviction. The window holds exactly the newest min(DEDUP_WINDOW,
\* accepted) accepted keys, oldest first, and an evicted key is accepted as new.
FifoEviction == [](WindowIsNewestAccepted) /\ [][EvictedIsAcceptedAgain]_vars

\* C4 witness: capacity 2 and five messages, four of them accepted, the first
\* and the fourth under the same key (it was evicted by the third), the window
\* holding the third and fourth accepted keys.
FifoEvictionWitness ==
    /\ CONFIG.DEDUP_WINDOW = 2
    /\ calls = 5
    /\ Len(reports) = 4
    /\ ReportKey(reports[1]) = ReportKey(reports[4])
    /\ SEEN_KEYS = <<ReportKey(reports[3]), ReportKey(reports[4])>>

\* the documented end-to-end message: an issue and number 3
ExampleMessage == M(("number" :> I(3)) @@ ("issue" :> S(<<"a">>)))

\* C5: a message yields a payload exactly when the normaliser returns an event
\* whose key is not in the window at that moment; the payload carries the
\* event's issue and make_signal of its number; the example message gives
\* SMALL / ODD at 60 under threshold 5, and a message with an issue that is
\* handed in twice in a row yields nothing the second time.
PipelineOutcome ==
    [][ ProcessStep =>
          LET ev == parsed'
          IN  /\ parsed' = parse_number_from_payload(raw')
              /\ report' # None <=>
                    (ev # None /\ EventKey(ev, now) \notin Range(SEEN_KEYS))
              /\ report' # None =>
                    /\ report'.v.issue = ev.v.issue
                    /\ report'.v.signal = make_signal(ev.v.number)
                    /\ reports' = Append(reports, report')
              /\ report' = None => reports' = reports
              /\ (report' # None /\ raw' = ExampleMessage /\ CONFIG.BIG_THRESHOLD = 5) =>
                    /\ report'.v.signal.decision = "SMALL / ODD"
                    /\ report'.v.signal.confidence = 60
              /\ (calls > 0 /\ raw' = raw /\ ev # None /\ ev.v.issue # None) =>
                    report' = None ]_vars

\* C5 witness: the example message was reported as SMALL / ODD at 60 and, handed
\* in again, was dropped.
PipelineOutcomeWitness ==
    /\ raw = ExampleMessage
    /\ report = None
    /\ calls = 2
    /\ Len(reports) = 1
    /\ reports[1].v.issue = S(<<"a">>)
    /\ reports[1].v.signal.decision = "SMALL / ODD"
    /\ reports[1].v.signal.confidence = 60

\* the payloads built so far for events without an issue that carried number n
FallbackReports(n) ==
    {i \in 1..Len(reports) : reports[i].v.issue = None /\ reports[i].v.signal.meta.num = n}

\* payload i was built in the minute bucket of the current time
SameBucket(i) == reports[i].v.created_at \div 60 = now \div 60

\* C14 as stated: an event without an issue is dropped when an event without an
\* issue and with the same number was reported in the same minute bucket, and
\* reported when the same number was reported in earlier buckets only.
MinuteBucketAsStated ==
    [][ (ProcessStep /\ parsed' # None /\ parsed'.v.issue = None) =>
          LET earlier == FallbackReports(parsed'.v.number)
              same    == {i \in earlier : SameBucket(i)}
          IN  /\ same # {} => report' = None
              /\ (earlier # {} /\ same = {}) => report' # None ]_vars

\* C14 amended: two events without an issue and with the same number have the
\* same key exactly when they arrive in the same minute bucket; the second is
\* dropped when the first one's key is still in the window; in a later bucket
\* it is reported under its new key unless that key is in the window as the
\* issue of another event.
MinuteBucket ==
    [][ (ProcessStep /\ parsed' # None /\ parsed'.v.issue = None) =>
          LET key     == EventKey(parsed', now)
              earlier == FallbackReports(parsed'.v.number)
          IN  /\ \A i \in earlier : (ReportKey(reports[i]) = key) <=> SameBucket(i)
              /\ (\E i \in earlier : SameBucket(i) /\ ReportKey(reports[i]) \in Range(SEEN_KEYS))
                    => report' = None
              /\ ( /\ \A i \in earlier : ~SameBucket(i)
                   /\ \A i \in 1..Len(reports) :
                         (reports[i].v.issue # None /\ reports[i].v.issue.v \in Range(SEEN_KEYS))
                             => reports[i].v.issue.v # key )
                    => /\ report' # None
                       /\ ReportKey(report') = key
                       /\ SEEN_KEYS'[Len(SEEN_KEYS')] = key ]_vars

\* C14 witness: number 3 without an issue was reported in minute 0 and, with the
\* key of minute 0 still in the window, again in minute 1.
MinuteBucketWitness ==
    /\ now = 60
    /\ raw = M("number" :> I(3))
    /\ report # None
    /\ report.v.issue = None
    /\ \E i \in FallbackReports(I(3)) : reports[i].v.created_at < 60
    /\ <<"3", "-", "0">> \in Range(SEEN_KEYS)
    /\ SEEN_KEYS[Len(SEEN_KEYS)] = <<"3", "-", "1">>

\* C15: the key of an event with an issue is the issue text itself: the event
\* is dropped when that text is in the window, whatever its number and the
\* time, and otherwise reported and remembered under exactly that text, so two
\* events with different issues are never taken for each other.
IssueKey ==
    [][ (ProcessStep /\ parsed' # None /\ parsed'.v.issue # None) =>
          LET issue == parsed'.v.issue.v
          IN  /\ issue \in Range(SEEN_KEYS) =>
                    /\ report' = None
                    /\ SEEN_KEYS' = SEEN_KEYS
              /\ issue \notin Range(SEEN_KEYS) =>
                    /\ report' # None
                    /\ report'.v.issue = parsed'.v.issue
                    /\ SEEN_KEYS'[Len(SEEN_KEYS')] = issue ]_vars

\* C15 witness: issue a was reported with number 3 in minute 0; the event with
\* issue a and number 9 that arrived in minute 1 was dropped.
IssueKeyWitness ==
    /\ now = 60
    /\ parsed # None
    /\ parsed.v.issue = S(<<"a">>)
    /\ parsed.v.number = I(9)
    /\ report = None
    /\ \E i \in 1..Len(reports) :
          /\ reports[i].v.issue = S(<<"a">>)
          /\ reports[i].v.signal.meta.num = I(3)
          /\ reports[i].v.created_at = 0

\* C20: SEEN_KEYS never holds the same key at two positions.
WindowKeysDistinct ==
    \A i, j \in 1..Len(SEEN_KEYS) : i # j => SEEN_KEYS[i] # SEEN_KEYS[j]

\* C20 witness: three different keys are in the list and the message handled
\* last carried one of them and was dropped.
WindowKeysDistinctWitness ==
    /\ Len(SEEN_KEYS) = 3
    /\ Cardinality(Range(SEEN_KEYS)) = 3
    /\ parsed # None
    /\ report = None
    /\ EventKey(parsed, now) \in Range(SEEN_KEYS)

----------------------------------------------------------------------------
(* Properties of the sink specification *)

\* C16: when the message yields no event, or its key is in the window, the
\* step builds no payload, leaves SEEN_KEYS as it was (same keys, same order)
\* and runs no delivery.
NoReportFrame ==
    [][ (ProcessStep /\ (parsed' = None \/ EventKey(parsed', now) \in Range(SEEN_KEYS))) =>
          /\ report' = None
          /\ reports' = reports
          /\ SEEN_KEYS' = SEEN_KEYS
          /\ sinks' = sinks ]_vars

\* C16 witness: both sinks are switched on and set up, two payloads were
\* delivered, and the third message carried the older of the two keys in the
\* window: it was dropped, the key kept its place and nothing was delivered.
NoReportFrameWitness ==
    /\ CONFIG.SEND_TO_WEB /\ CONFIG.WEB_READY
    /\ CONFIG.SEND_TO_TELEGRAM /\ CONFIG.TELEGRAM_READY
    /\ calls = 3
    /\ parsed # None
    /\ report = None
    /\ Len(SEEN_KEYS) = 2
    /\ EventKey(parsed, now) = SEEN_KEYS[1]
    /\ Len(sinks) = 2
    /\ sinks[2].web = "sent" /\ sinks[2].tg = "sent"

\* a sink call that went as far as the request
Attempted(outcome) == outcome \in {"sent", "failed"}

\* C17: the deliveries of a payload run with its key already in SEEN_KEYS; the
\* Telegram push is attempted whenever it is switched on and set up, whether
\* the web push answered or raised; and an event whose key is in the window is
\* not reported again, also when the web push of its payload raised.
SinkFailureIsolation ==
    [][ ProcessStep =>
          /\ report' # None =>
                LET o == sinks'[Len(sinks')]
                IN  /\ Len(sinks') = Len(sinks) + 1
                    /\ ReportKey(report') \in Range(o.seen)
                    /\ ReportKey(report') \in Range(SEEN_KEYS')
                    /\ (CONFIG.SEND_TO_WEB /\ CONFIG.WEB_READY) <=> Attempted(o.web)
                    /\ (CONFIG.SEND_TO_TELEGRAM /\ CONFIG.TELEGRAM_READY) <=> Attempted(o.tg)
          /\ (parsed' # None /\
               \E i \in 1..Len(reports) :
                  /\ ReportKey(reports[i]) = EventKey(parsed', now)
                  /\ ReportKey(reports[i]) \in Range(SEEN_KEYS)
                  /\ sinks[i].web = "failed") =>
                /\ report' = None
                /\ reports' = reports
                /\ sinks' = sinks ]_vars

\* C17 witness: the web push of the first payload raised, its Telegram push
\* went out, its key is in the window, and the same message handed in again
\* was dropped.
SinkFailureIsolationWitness ==
    /\ calls = 2
    /\ Len(reports) = 1
    /\ Len(sinks) = 1
    /\ sinks[1].web = "failed"
    /\ sinks[1].tg = "sent"
    /\ ReportKey(reports[1]) \in Range(sinks[1].seen)
    /\ parsed # None
    /\ EventKey(parsed, now) = ReportKey(reports[1])
    /\ report = None

----------------------------------------------------------------------------
(* Properties of the thread specification *)

\* a thread that passed the membership test and has not yet built its payload
Accepting(t) == th[t].at \in {"append", "prune", "emit"}

\* C18: test and insertion act as one step: no two handlers are past the
\* membership test with the same key at the same time (so only one of them
\* builds a payload), and that key is in SEEN_KEYS once.
AtomicTestAndInsert ==
    /\ \A t, u \in Threads : (t # u /\ Accepting(t) /\ Accepting(u)) => th[t].dkey # th[u].dkey
    /\ \A t \in Threads :
          Cardinality({i \in 1..Len(SEEN_KEYS) : SEEN_KEYS[i] = th[t].dkey}) <= 1

----------------------------------------------------------------------------
(* Properties of the connection specification *)

\* C19: whenever connect_socket() has raised or returned (main() is in the
\* code behind it), main() eventually calls connect_socket() again or has been
\* told to shut down.
ConnectionRetry ==
    (pc \in {"heartbeat", "hb_sleep"}) ~> (pc \in {"connect", "exit"})

----------------------------------------------------------------------------
(* Properties of the normaliser specification *)

\* the value stored under key in a mapping, None when there is none
Field(m, key) == IF m.k = "map" /\ key \in DOMAIN m.v THEN m.v[key] ELSE None

\* the six candidates of a mapping in their documented order: number, result,
\* openCode, lucky, lottery.number, data.number
CandidateAt(m, i) ==
    CASE i = 1 -> Field(m, "number")
      [] i = 2 -> Field(m, "result")
      [] i = 3 -> Field(m, "openCode")
      [] i = 4 -> Field(m, "lucky")
      [] i = 5 -> Field(Field(m, "lottery"), "number")
      [] i = 6 -> Field(Field(m, "data"), "number")

\* the text of a string candidate without the whitespace around it
Trimmed(c) ==
    LET idx == {i \in 1..Len(c.v) : ~IsSpace(c.v[i])}
        lo  == CHOOSE i \in idx : \A j \in idx : i <= j
        hi  == CHOOSE i \in idx : \A j \in idx : j <= i
    IN  IF idx = {} THEN <<>> ELSE SubSeq(c.v, lo, hi)

\* a valid candidate: an integer in [0,99], or a text ending in a digit
ValidCandidate(c) ==
    \/ c.k \in {"int", "bool"} /\ Num(c) \in 0..99
    \/ c.k = "str" /\ Trimmed(c) # <<>> /\ IsDigit(Trimmed(c)[Len(Trimmed(c))])

\* the number a valid candidate stands for: the integer itself, or the value
\* of the last two digits (the last digit) of the text
CandidateNumber(c) ==
    IF c.k = "str"
    THEN LET t == Trimmed(c)
             n == Len(t)
         IN  IF n >= 2 /\ IsDigit(t[n - 1])
             THEN 10 * DigitVal(t[n - 1]) + DigitVal(t[n])
             ELSE DigitVal(t[n])
    ELSE Num(c)

\* a mapping with one of the four top-level candidate fields and nothing else,
\* holding an integer outside [0,99]
OnlyOutOfRange(m) ==
    /\ m.k = "map"
    /\ \E key \in {"number", "result", "openCode", "lucky"} :
        /\ DOMAIN m.v = {key}
        /\ m.v[key].k = "int"
        /\ m.v[key].v \notin 0..99

\* C6: every event the normaliser returns has an integer number in [0,99], so
\* the number make_signal is called with (meta.num of the payload) is in
\* [0,99]; a mapping whose only candidate is an integer outside [0,99], such
\* as {number: 150}, yields no event.
NumberRange ==
    /\ parsed # None =>
          /\ parsed.v.number.k \in {"int", "bool"}
          /\ Num(parsed.v.number) \in 0..99
    /\ report # None =>
          /\ report.v.signal.meta.num = parsed.v.number
          /\ Num(report.v.signal.meta.num) \in 0..99
    /\ (pc = "parsed" /\ OnlyOutOfRange(raw)) => (parsed = None /\ report = None)

\* C6 witness: an event at the upper end of the range went through make_signal.
NumberRangeWitness ==
    /\ pc = "parsed"
    /\ raw = M("number" :> I(99))
    /\ parsed # None
    /\ report # None
    /\ report.v.signal.meta.num = I(99)

\* C10: for a mapping with at least one valid candidate, the event carries the
\* number of the first valid candidate in the documented order, whatever the
\* candidates before it hold; {number: 7, issue: X1} gives (X1, 7).
CandidatePriority ==
    (pc = "parsed" /\ raw.k = "map") =>
        LET valid == {i \in 1..6 : ValidCandidate(CandidateAt(raw, i))}
            first == CHOOSE i \in valid : \A j \in valid : i <= j
        IN  /\ valid # {} =>
                  /\ parsed # None
                  /\ Num(parsed.v.number) = CandidateNumber(CandidateAt(raw, first))
            /\ raw = M(("number" :> I(7)) @@ ("issue" :> S(<<"X", "1">>))) =>
                  /\ parsed # None
                  /\ parsed.v.issue = S(<<"X", "1">>)
                  /\ parsed.v.number = I(7)

\* C10 witness: the number came from data.number, the last candidate, behind an
\* out-of-range number, a text without digits and a null.
CandidatePriorityWitness ==
    /\ pc = "parsed"
    /\ raw.k = "map"
    /\ CandidateAt(raw, 1) = I(101)
    /\ CandidateAt(raw, 2) = None /\ "result" \in DOMAIN raw.v
    /\ CandidateAt(raw, 3) = S(<<"a">>)
    /\ CandidateAt(raw, 5) = I(105)
    /\ ValidCandidate(CandidateAt(raw, 6))
    /\ parsed # None
    /\ parsed.v.number = I(66)

\* a list with at least one element
NonEmptyList(v) == v.k = "list" /\ Len(v.v) > 0

\* the array keys in their documented order
ArrayKeyAt(i) ==
    CASE i = 1 -> "list"
      [] i = 2 -> "rows"
      [] i = 3 -> "data"
      [] i = 4 -> "resultList"

\* C11: for a mapping with no valid direct candidate, the result is the result
\* of normalising the last element of the first non-empty list under list,
\* rows, data, resultList (in that order), also when that result is None; for
\* a non-empty list it is the result of normalising its last element; the
\* documented {"list": [{"number": 3}, {"number": 8}]} gives (None, 8).
ArrayRecursion ==
    pc = "parsed" =>
        /\ (raw.k = "map" /\ \A c \in 1..6 : ~ValidCandidate(CandidateAt(raw, c))) =>
              \A i \in 1..4 :
                  ( /\ NonEmptyList(Field(raw, ArrayKeyAt(i)))
                    /\ \A j \in 1..(i - 1) : ~NonEmptyList(Field(raw, ArrayKeyAt(j))) ) =>
                  LET arr == Field(raw, ArrayKeyAt(i)).v
                  IN  parsed = parse_number_from_payload(arr[Len(arr)])
        /\ NonEmptyList(raw) => parsed = parse_number_from_payload(raw.v[Len(raw.v)])
        /\ raw = ExampleArray => parsed = Event(None, I(8), M("number" :> I(8)))

\* C11 witness: list is empty, rows and data both hold two elements, and the
\* event is the last element of rows although the direct number is 150.
ArrayRecursionWitness ==
    /\ pc = "parsed"
    /\ raw.k = "map"
    /\ Field(raw, "number") = I(150)
    /\ Field(raw, "list") = L(<<>>)
    /\ NonEmptyList(Field(raw, "rows")) /\ Len(Field(raw, "rows").v) = 2
    /\ NonEmptyList(Field(raw, "data")) /\ Len(Field(raw, "data").v) = 2
    /\ parsed # None
    /\ parsed.v.number = I(12)
    /\ parsed.v.raw = Field(raw, "rows").v[2]

\* a text that starts and ends like a JSON object or a JSON array
LooksLikeJson(t) ==
    /\ Len(t) >= 1
    /\ \/ t[1] = "{" /\ t[Len(t)] = "}"
       \/ t[1] = "[" /\ t[Len(t)] = "]"

\* C12: for a text that does not look like a JSON object or array, or does not
\* parse as one: when its trimmed form ends in a digit the event has no issue,
\* the number given by the last two digits of the trailing run (the last digit
\* when the run has one) and the text as raw; when it does not end in a digit
\* there is no event; "round result: 42" gives 42 and "value: 123" gives 23.
TrailingDigits ==
    (pc = "parsed" /\ raw.k = "str") =>
        LET t == Trimmed(raw)
        IN  /\ (~LooksLikeJson(t) \/ ~json_loads(t).ok) =>
                  IF t # <<>> /\ IsDigit(t[Len(t)])
                  THEN parsed = Event(None, I(CandidateNumber(raw)), raw)
                  ELSE parsed = None
            /\ raw = S(TEXT_ROUND) => (parsed # None /\ parsed.v.number = I(42))
            /\ raw = S(TEXT_VALUE) => (parsed # None /\ parsed.v.number = I(23))

\* C12 witness: "value: 123" gave the event (None, 23).
TrailingDigitsWitness ==
    /\ pc = "parsed"
    /\ raw = S(TEXT_VALUE)
    /\ parsed # None
    /\ parsed.v.issue = None
    /\ parsed.v.number = I(23)

\* a value that Python's "or" does not skip: a non-empty text, an integer other
\* than 0, True
NonEmptyValue(v) ==
    \/ v.k = "str" /\ v.v # <<>>
    \/ v.k = "int" /\ v.v # 0
    \/ v.k = "bool" /\ v.v

\* the issue, expect and period fields of a mapping, in that order
IssueFieldAt(m, i) ==
    CASE i = 1 -> Field(m, "issue")
      [] i = 2 -> Field(m, "expect")
      [] i = 3 -> Field(m, "period")

\* the text of the first non-empty value among issue, expect, period; None when
\* all three are missing or empty
FirstIssue(m) ==
    LET idx == {i \in 1..3 : NonEmptyValue(IssueFieldAt(m, i))}
    IN  IF idx = {} THEN None
        ELSE S(PyStr(IssueFieldAt(m, CHOOSE i \in idx : \A j \in idx : i <= j)))

\* the issue of an event is None or a non-empty text
IssueNeverEmpty ==
    parsed # None =>
        \/ parsed.v.issue = None
        \/ parsed.v.issue.k = "str" /\ Len(parsed.v.issue.v) > 0

\* C13 as stated: the issue of an event is None or a non-empty text, and for
\* every mapping it is the first non-empty value among the mapping's issue,
\* expect, period, None when all are missing or empty.
IssueResolutionAsStated ==
    /\ IssueNeverEmpty
    /\ (pc = "parsed" /\ raw.k = "map" /\ parsed # None) => parsed.v.issue = FirstIssue(raw)

\* C13: the issue of an event is None or a non-empty text; for a mapping whose
\* number comes from one of its own candidates it is the text of the first
\* non-empty value among the mapping's issue, expect, period, None when all
\* are missing or empty; for a mapping whose number comes from an array
\* element it is the issue that element resolves to.
IssueResolution ==
    /\ IssueNeverEmpty
    /\ (pc = "parsed" /\ raw.k = "map" /\ \E c \in 1..6 : ValidCandidate(CandidateAt(raw, c))) =>
          (parsed # None /\ parsed.v.issue = FirstIssue(raw))
    /\ (pc = "parsed" /\ raw.k = "map" /\ parsed # None
           /\ \A c \in 1..6 : ~ValidCandidate(CandidateAt(raw, c))) =>
          parsed.v.issue = FirstIssue(parsed.v.raw)

\* C13 witness: issue is "", expect is the integer 12, period is "X1"; the
\* event carries the text "12".
IssueResolutionWitness ==
    /\ pc = "parsed"
    /\ raw.k = "map"
    /\ Field(raw, "issue") = S(<<>>) /\ "issue" \in DOMAIN raw.v
    /\ Field(raw, "expect") = I(12)
    /\ Field(raw, "period") = S(<<"X", "1">>)
    /\ parsed # None
    /\ parsed.v.issue = S(<<"1", "2">>)

----------------------------------------------------------------------------
(* Properties of the classifier specification *)

\* C7: the decision is BIG exactly when the number is at least the threshold,
\* SMALL otherwise, and EVEN exactly when the number is even, ODD otherwise.
SizeParity ==
    pc = "classified" =>
        LET n == Num(num)
            t == CONFIG.BIG_THRESHOLD
        IN  /\ sig.decision \in {"BIG / EVEN", "BIG / ODD", "SMALL / EVEN", "SMALL / ODD"}
            /\ sig.decision \in {"BIG / EVEN", "BIG / ODD"} <=> n >= t
            /\ sig.decision \in {"BIG / EVEN", "SMALL / EVEN"} <=> (\E h \in 0..n : n = 2 * h)

\* C7 witness: a number equal to the threshold was classified BIG.
SizeParityWitness ==
    /\ pc = "classified"
    /\ num = I(5)
    /\ CONFIG.BIG_THRESHOLD = 5
    /\ sig.decision = "BIG / ODD"

\* C8 as stated: threshold and threshold - 1 always get 55, 0 and 9 get 65,
\* every other number 60.
BoundaryConfidenceAsStated ==
    pc = "classified" =>
        LET n == Num(num)
            t == CONFIG.BIG_THRESHOLD
        IN  /\ n = t => sig.confidence = 55
            /\ (n = t - 1 /\ t - 1 >= 0) => sig.confidence = 55
            /\ n \in {0, 9} => sig.confidence = 65
            /\ n \notin {t, t - 1, 0, 9} => sig.confidence = 60

\* C8 amended: threshold and threshold - 1 get 55 unless the number is 0 or 9;
\* 0 and 9 get 65; every other number 60.
BoundaryConfidence ==
    pc = "classified" =>
        LET n == Num(num)
            t == CONFIG.BIG_THRESHOLD
        IN  /\ (n = t /\ t \notin {0, 9}) => sig.confidence = 55
            /\ (n = t - 1 /\ t - 1 >= 0 /\ t - 1 \notin {0, 9}) => sig.confidence = 55
            /\ n \in {0, 9} => sig.confidence = 65
            /\ n \notin {t, t - 1, 0, 9} => sig.confidence = 60

\* C8 witness: the number below a threshold of 5 got 55.
BoundaryConfidenceWitness ==
    /\ pc = "classified"
    /\ CONFIG.BIG_THRESHOLD = 5
    /\ num = I(4)
    /\ sig.confidence = 55

\* C9: 65 for 0 and 9 even on the boundary, else 55 on the boundary, else 60.
ConfidenceOverrideOrder ==
    pc = "classified" =>
        sig.confidence =
            IF Num(num) = 0 \/ Num(num) = 9 THEN 65
            ELSE IF Num(num) = CONFIG.BIG_THRESHOLD \/ Num(num) + 1 = CONFIG.BIG_THRESHOLD THEN 55
            ELSE 60

\* C9 witness: 9 is the threshold itself and still got 65.
ConfidenceOverrideOrderWitness ==
    /\ pc = "classified"
    /\ CONFIG.BIG_THRESHOLD = 9
    /\ num = I(9)
    /\ sig.confidence = 65

====
